---- MODULE Spec2Model ----
(***************************************************************************)
(* A model of lib/common/Mat22.js (planck.js): the 2-by-2 matrix type, its *)
(* setters, getInverse, solve, and the static mul, mulT, abs and add.      *)
(*                                                                         *)
(* Numbers are JavaScript Numbers (IEEE-754 binary64).  A finite Number is *)
(* the record [nan |-> FALSE, s, m, e] that stands for (-1)^s * m * 2^e,   *)
(* with m an odd natural number of at most Precision bits, kept as a       *)
(* little-endian sequence of limbs in base Base; zero is m = <<>>, e = 0,  *)
(* s = 0 (+0 and -0 compare equal in JavaScript and nothing in Mat22.js    *)
(* tells them apart).  NaN is the record with nan |-> TRUE.  Every         *)
(* arithmetic operator computes the exact result and rounds it to nearest, *)
(* ties to even, as the hardware does.  The exponent range of binary64     *)
(* (overflow to Infinity, subnormals) is not modelled: the inputs are      *)
(* small integers and no result leaves the normal range.                   *)
(***************************************************************************)
EXTENDS Integers, Sequences, FiniteSets, TLC

\* Bits of a binary64 significand.
Precision == 53

\* Limb base of the natural numbers that hold significands.
Base == 2^15

(***************************************************************************)
(* Natural numbers of any size: little-endian limb sequences, no leading   *)
(* (high) zero limb.                                                       *)
(***************************************************************************)
Limb(x, i) == IF i <= Len(x) THEN x[i] ELSE 0

Max2(a, b) == IF a >= b THEN a ELSE b

Min2(a, b) == IF a <= b THEN a ELSE b

RECURSIVE BNorm(_)
BNorm(x) ==
  IF x = <<>> THEN <<>>
  ELSE IF x[Len(x)] = 0 THEN BNorm(SubSeq(x, 1, Len(x) - 1))
  ELSE x

RECURSIVE BFromNat(_)
BFromNat(n) == IF n = 0 THEN <<>> ELSE <<n % Base>> \o BFromNat(n \div Base)

RECURSIVE BAddC(_, _, _, _)
BAddC(x, y, i, carry) ==
  IF i > Len(x) /\ i > Len(y)
  THEN (IF carry = 0 THEN <<>> ELSE <<carry>>)
  ELSE LET t == Limb(x, i) + Limb(y, i) + carry
       IN  <<t % Base>> \o BAddC(x, y, i + 1, t \div Base)

BAdd(x, y) == BAddC(x, y, 1, 0)

\* x - y for x >= y.
RECURSIVE BSubC(_, _, _, _)
BSubC(x, y, i, borrow) ==
  IF i > Len(x) THEN <<>>
  ELSE LET t == Limb(x, i) - Limb(y, i) - borrow
       IN  IF t < 0 THEN <<t + Base>> \o BSubC(x, y, i + 1, 1)
           ELSE <<t>> \o BSubC(x, y, i + 1, 0)

BSub(x, y) == BNorm(BSubC(x, y, 1, 0))

\* -1, 0 or 1 as x is below, equal to or above y.
RECURSIVE BCmpAt(_, _, _)
BCmpAt(x, y, i) ==
  IF i = 0 THEN 0
  ELSE IF x[i] < y[i] THEN -1
  ELSE IF x[i] > y[i] THEN 1
  ELSE BCmpAt(x, y, i - 1)

BCmp(x, y) ==
  IF Len(x) < Len(y) THEN -1
  ELSE IF Len(x) > Len(y) THEN 1
  ELSE BCmpAt(x, y, Len(x))

\* x * k for a limb-sized k.
RECURSIVE BMulSmallC(_, _, _, _)
BMulSmallC(x, k, i, carry) ==
  IF i > Len(x)
  THEN (IF carry = 0 THEN <<>> ELSE <<carry>>)
  ELSE LET t == x[i] * k + carry
       IN  <<t % Base>> \o BMulSmallC(x, k, i + 1, t \div Base)

BMulSmall(x, k) == IF k = 0 THEN <<>> ELSE BMulSmallC(x, k, 1, 0)

Zeros(n) == [i \in 1..n |-> 0]

BShiftLimbs(x, n) == IF x = <<>> THEN <<>> ELSE Zeros(n) \o x

RECURSIVE BMulFrom(_, _, _)
BMulFrom(x, y, i) ==
  IF i > Len(y) THEN <<>>
  ELSE BAdd(BShiftLimbs(BMulSmall(x, y[i]), i - 1), BMulFrom(x, y, i + 1))

BMul(x, y) == BMulFrom(x, y, 1)

\* x * 2^n.
BShl(x, n) == BShiftLimbs(BMulSmall(x, 2^(n % 15)), n \div 15)

\* floor(x / k) for a limb-sized k, from the high limb down.
RECURSIVE BDivSmallC(_, _, _, _)
BDivSmallC(x, k, i, rem) ==
  IF i = 0 THEN <<>>
  ELSE LET t == rem * Base + x[i]
       IN  BDivSmallC(x, k, i - 1, t % k) \o <<t \div k>>

BDivSmall(x, k) == BNorm(BDivSmallC(x, k, Len(x), 0))

\* floor(x / 2^n).
BShr(x, n) ==
  IF n \div 15 >= Len(x) THEN <<>>
  ELSE BDivSmall(SubSeq(x, n \div 15 + 1, Len(x)), 2^(n % 15))

RECURSIVE NatBits(_)
NatBits(n) == IF n = 0 THEN 0 ELSE 1 + NatBits(n \div 2)

BBitLen(x) == IF x = <<>> THEN 0 ELSE 15 * (Len(x) - 1) + NatBits(x[Len(x)])

\* Bit n (from 0) of x.
BBit(x, n) == (Limb(x, n \div 15 + 1) \div 2^(n % 15)) % 2

\* Whether the n low bits of x are all zero.
BLowZero(x, n) ==
  /\ \A i \in 1..Min2(n \div 15, Len(x)) : x[i] = 0
  /\ Limb(x, n \div 15 + 1) % 2^(n % 15) = 0

\* The number of trailing zero bits of x > 0.
RECURSIVE NatTz(_)
NatTz(n) == IF n % 2 = 1 THEN 0 ELSE 1 + NatTz(n \div 2)

RECURSIVE BTzFrom(_, _)
BTzFrom(x, i) == IF x[i] = 0 THEN 15 + BTzFrom(x, i + 1) ELSE NatTz(x[i])

BTz(x) == BTzFrom(x, 1)

\* One step of long division: bit i of x is brought down into the remainder
\* s[2], and the quotient s[1] gains a bit.
BDivStep(x, y, i, s) ==
  LET r2 == BAdd(BShl(s[2], 1), BFromNat(BBit(x, i)))
      q2 == BShl(s[1], 1)
  IN  IF BCmp(r2, y) >= 0 THEN <<BAdd(q2, <<1>>), BSub(r2, y)>>
      ELSE <<q2, r2>>

\* The steps for bits hi down to lo of x, halving the range so that the
\* nesting stays logarithmic in the number of bits.  Each half's result is
\* bound by a quantifier, which makes it a value before it is used.
RECURSIVE BDivRange(_, _, _, _, _)
BDivRange(x, y, hi, lo, st) ==
  IF hi = lo THEN CHOOSE t \in {BDivStep(x, y, hi, s) : s \in {st}} : TRUE
  ELSE LET mid == (hi + lo + 1) \div 2
       IN  CHOOSE t \in {BDivRange(x, y, mid - 1, lo, s) :
                           s \in {BDivRange(x, y, hi, mid, st)}} : TRUE

\* <<floor(x / y), x mod y>> for x > 0 and y > 0: limb by limb when y is one
\* limb, bit by bit otherwise.
BDivMod(x, y) ==
  IF Len(y) = 1
  THEN LET q == BDivSmall(x, y[1]) IN <<q, BSub(x, BMulSmall(q, y[1]))>>
  ELSE BDivRange(x, y, BBitLen(x) - 1, 0, <<<<>>, <<>>>>)

(***************************************************************************)
(* Numbers.                                                                *)
(***************************************************************************)
Zero == [nan |-> FALSE, s |-> 0, m |-> <<>>, e |-> 0]

NaN == [nan |-> TRUE, s |-> 0, m |-> <<>>, e |-> 0]

\* The Number (-1)^s * M * 2^e for a natural M of at most Precision bits.
Canon(s, M, e) ==
  IF M = <<>> THEN Zero
  ELSE LET tz == BTz(M)
       IN  [nan |-> FALSE, s |-> s, m |-> BShr(M, tz), e |-> e + tz]

\* (-1)^s * (M + t) * 2^e rounded to nearest, ties to even, where 0 < t < 1
\* when sticky and t = 0 otherwise.
Round(s, M, e, sticky) ==
  LET n == BBitLen(M)
      sh == n - Precision
      q == BShr(M, sh)
      half == BBit(M, sh - 1) = 1
      rest == sticky \/ ~BLowZero(M, sh - 1)
      up == half /\ (rest \/ BBit(q, 0) = 1)
  IN  IF n <= Precision THEN Canon(s, M, e)
      ELSE Canon(s, IF up THEN BAdd(q, <<1>>) ELSE q, e + sh)

\* x rounded to a Number, for an exact dyadic x (a significand of any size).
Rnd(x) == Round(x.s, x.m, x.e, FALSE)

FromInt(i) ==
  IF i = 0 THEN Zero
  ELSE IF i < 0 THEN Round(1, BFromNat(-i), 0, FALSE)
  ELSE Round(0, BFromNat(i), 0, FALSE)

One == FromInt(1)

\* Unary minus.
FNeg(x) ==
  IF x.nan \/ x.m = <<>> THEN x ELSE [x EXCEPT !.s = 1 - x.s]

\* Math.abs.
FAbs(x) == IF x.nan THEN x ELSE [x EXCEPT !.s = 0]

\* The exact product and the exact sum of two finite dyadic numbers.
XMul(x, y) ==
  IF x.m = <<>> \/ y.m = <<>> THEN Zero
  ELSE Canon((x.s + y.s) % 2, BMul(x.m, y.m), x.e + y.e)

XAdd(x, y) ==
  IF x.m = <<>> THEN y
  ELSE IF y.m = <<>> THEN x
  ELSE LET e == Min2(x.e, y.e)
           X == BShl(x.m, x.e - e)
           Y == BShl(y.m, y.e - e)
           c == BCmp(X, Y)
       IN  IF x.s = y.s THEN Canon(x.s, BAdd(X, Y), e)
           ELSE IF c = 0 THEN Zero
           ELSE IF c > 0 THEN Canon(x.s, BSub(X, Y), e)
           ELSE Canon(y.s, BSub(Y, X), e)

XSub(x, y) == XAdd(x, FNeg(y))

\* x <= y for finite dyadic numbers.
XLe(x, y) == LET d == XSub(x, y) IN d.m = <<>> \/ d.s = 1

\* 2^k as a dyadic number.
Pow2(k) == [nan |-> FALSE, s |-> 0, m |-> <<1>>, e |-> k]

\* The JavaScript operators x * y, x + y, x - y on Numbers.
FMul(x, y) == IF x.nan \/ y.nan THEN NaN ELSE Rnd(XMul(x, y))

FAdd(x, y) == IF x.nan \/ y.nan THEN NaN ELSE Rnd(XAdd(x, y))

FSub(x, y) == FAdd(x, FNeg(y))

\* x / y for y # 0 (Mat22.js divides only behind its det != 0.0 guards).  The
\* quotient of the significands is taken to Precision + 2 bits or more, and
\* a non-zero remainder is the sticky bit.
FDiv(x, y) ==
  IF x.nan \/ y.nan THEN NaN
  ELSE IF x.m = <<>> THEN Zero
  ELSE LET k == Max2(0, Precision + 2 + BBitLen(y.m) - BBitLen(x.m))
           qr == BDivMod(BShl(x.m, k), y.m)
       IN  Round((x.s + y.s) % 2, qr[1], x.e - y.e - k, qr[2] # <<>>)

(***************************************************************************)
(* JavaScript values.  A Number is a record with the field nan, a Vec2 a   *)
(* record with the fields x and y, a Mat22 a record with the fields ex and *)
(* ey.  Undefined is a missing argument or property; Str is the string     *)
(* that + makes of two objects.                                            *)
(***************************************************************************)
Undefined == [undefined |-> TRUE]

Str == [string |-> TRUE]

IsNumber(a) == "nan" \in DOMAIN a

\* typeof a === 'object' && a !== null, for the values of this model.
IsObject(a) == "x" \in DOMAIN a \/ "ex" \in DOMAIN a

\* What a call gives: a returned value, or a thrown error.
Ret(v) == [err |-> "", val |-> v]

Throw(msg) == [err |-> msg, val |-> Undefined]

(***************************************************************************)
(* Vec2 (lib/common/Vec2.js), as far as Mat22.js uses it.                   *)
(***************************************************************************)
\* new Vec2(x, y); new Vec2() is the zero vector.
Vec2(x, y) ==
  IF IsNumber(x) THEN [x |-> x, y |-> y] ELSE [x |-> Zero, y |-> Zero]

\* Vec2.isValid(o): an object whose x and y are finite Numbers.
Vec2_isValid(o) ==
  /\ "x" \in DOMAIN o /\ "y" \in DOMAIN o
  /\ IsNumber(o.x) /\ IsNumber(o.y)
  /\ ~o.x.nan /\ ~o.y.nan

\* Vec2.clone(v): a new vector with v's components.
Vec2_clone(v) == [x |-> v.x, y |-> v.y]

\* Vec2.dot(v, w).
Vec2_dot(v, w) == FAdd(FMul(v.x, w.x), FMul(v.y, w.y))

\* Vec2.abs(v).
Vec2_abs(v) == [x |-> FAbs(v.x), y |-> FAbs(v.y)]

\* Vec2.mul(mx, v) as Mat22.mul uses it: the matrix mx applied to the column v.
Vec2_mul(mx, v) ==
  [x |-> FAdd(FMul(mx.ex.x, v.x), FMul(mx.ey.x, v.y)),
   y |-> FAdd(FMul(mx.ex.y, v.x), FMul(mx.ey.y, v.y))]

\* Vec2.add(v, w): the sum of two valid vectors.  Handed anything else it
\* fails its assertion where assertions are on, and is unchecked where they
\* are off: the outcomes are the thrown error and a vector of NaN.
Vec2_add(v, w) ==
  IF Vec2_isValid(v) /\ Vec2_isValid(w)
  THEN {Ret([x |-> FAdd(v.x, w.x), y |-> FAdd(v.y, w.y)])}
  ELSE {Throw("Invalid Vec2!"), Ret([x |-> NaN, y |-> NaN])}

(***************************************************************************)
(* Mat22, on values.                                                       *)
(***************************************************************************)
\* Mat22 with the four Numbers taken column by column: (a, b) and (c, d).
Mat22_ByColumns(a, b, c, d) ==
  IF IsObject(a) THEN [ex |-> Vec2_clone(a), ey |-> Vec2_clone(b)]
  ELSE IF IsNumber(a) THEN [ex |-> Vec2(a, b), ey |-> Vec2(c, d)]
  ELSE [ex |-> Vec2(Undefined, Undefined), ey |-> Vec2(Undefined, Undefined)]

\* new Mat22(a, b, c, d): two vectors are cloned, four Numbers fill the
\* columns (a, c) and (b, d), and anything else gives the zero matrix.
Mat22(a, b, c, d) ==
  IF IsObject(a) THEN [ex |-> Vec2_clone(a), ey |-> Vec2_clone(b)]
  ELSE IF IsNumber(a) THEN [ex |-> Vec2(a, c), ey |-> Vec2(b, d)]
  ELSE [ex |-> Vec2(Undefined, Undefined), ey |-> Vec2(Undefined, Undefined)]

\* isValid that checks the column ex twice and ey never.
Mat22_isValid_ExTwice(o) ==
  /\ "ex" \in DOMAIN o /\ "ey" \in DOMAIN o
  /\ Vec2_isValid(o.ex) /\ Vec2_isValid(o.ex)

Mat22_isValid(o) ==
  /\ "ex" \in DOMAIN o /\ "ey" \in DOMAIN o
  /\ Vec2_isValid(o.ex) /\ Vec2_isValid(o.ey)

\* The columns setIdentity and setZero leave.
IdentityValue == [ex |-> [x |-> One, y |-> Zero], ey |-> [x |-> Zero, y |-> One]]

ZeroValue == [ex |-> [x |-> Zero, y |-> Zero], ey |-> [x |-> Zero, y |-> Zero]]

\* The determinant's reciprocal as getInverse and solve take it: 1.0 / det,
\* and det itself where det is 0.
Det(this) ==
  FSub(FMul(this.ex.x, this.ey.y), FMul(this.ey.x, this.ex.y))

\* InvDet with 1 for the reciprocal of a zero determinant.
InvDet_One(det) == IF det # Zero THEN FDiv(One, det) ELSE One

InvDet(det) == IF det # Zero THEN FDiv(One, det) ELSE det

\* getInverse without the sign of imx.ey.x.
Mat22_getInverse_Unsigned(this) ==
  LET a == this.ex.x
      b == this.ey.x
      c == this.ex.y
      d == this.ey.y
      det == InvDet(Det(this))
  IN  [ex |-> [x |-> FMul(det, d), y |-> FMul(FNeg(det), c)],
       ey |-> [x |-> FMul(det, b), y |-> FMul(det, a)]]

Mat22_getInverse(this) ==
  LET a == this.ex.x
      b == this.ey.x
      c == this.ex.y
      d == this.ey.y
      det == InvDet(Det(this))
  IN  [ex |-> [x |-> FMul(det, d), y |-> FMul(FNeg(det), c)],
       ey |-> [x |-> FMul(FNeg(det), b), y |-> FMul(det, a)]]

\* solve with b for c in w.y.
Mat22_solve_WrongEntry(this, v) ==
  LET a == this.ex.x
      b == this.ey.x
      c == this.ex.y
      d == this.ey.y
      det == InvDet(Det(this))
  IN  IF ~Vec2_isValid(v) THEN Throw("Invalid Vec2!")
      ELSE Ret([x |-> FMul(det, FSub(FMul(d, v.x), FMul(b, v.y))),
                y |-> FMul(det, FSub(FMul(a, v.y), FMul(b, v.x)))])

Mat22_solve(this, v) ==
  LET a == this.ex.x
      b == this.ey.x
      c == this.ex.y
      d == this.ey.y
      det == InvDet(Det(this))
  IN  IF ~Vec2_isValid(v) THEN Throw("Invalid Vec2!")
      ELSE Ret([x |-> FMul(det, FSub(FMul(d, v.x), FMul(b, v.y))),
                y |-> FMul(det, FSub(FMul(a, v.y), FMul(c, v.x)))])

\* mul with the columns of a matrix product in the wrong order.
Mat22_mul_Swapped(mx, v) ==
  IF "x" \in DOMAIN v /\ "y" \in DOMAIN v
  THEN IF ~Vec2_isValid(v) THEN Throw("Invalid Vec2!")
       ELSE Ret(Vec2(FAdd(FMul(mx.ex.x, v.x), FMul(mx.ey.x, v.y)),
                     FAdd(FMul(mx.ex.y, v.x), FMul(mx.ey.y, v.y))))
  ELSE IF "ex" \in DOMAIN v /\ "ey" \in DOMAIN v
  THEN IF ~Mat22_isValid(v) THEN Throw("Invalid Mat22!")
       ELSE Ret(Mat22(Vec2_mul(mx, v.ey), Vec2_mul(mx, v.ex), Undefined, Undefined))
  ELSE Throw("assert")

Mat22_mul(mx, v) ==
  IF "x" \in DOMAIN v /\ "y" \in DOMAIN v
  THEN IF ~Vec2_isValid(v) THEN Throw("Invalid Vec2!")
       ELSE Ret(Vec2(FAdd(FMul(mx.ex.x, v.x), FMul(mx.ey.x, v.y)),
                     FAdd(FMul(mx.ex.y, v.x), FMul(mx.ey.y, v.y))))
  ELSE IF "ex" \in DOMAIN v /\ "ey" \in DOMAIN v
  THEN IF ~Mat22_isValid(v) THEN Throw("Invalid Mat22!")
       ELSE Ret(Mat22(Vec2_mul(mx, v.ex), Vec2_mul(mx, v.ey), Undefined, Undefined))
  ELSE Throw("assert")

\* mulT that applies the matrix itself, not its transpose, to a vector.
Mat22_mulT_Untransposed(mx, v) ==
  IF "x" \in DOMAIN v /\ "y" \in DOMAIN v
  THEN IF ~Vec2_isValid(v) THEN Throw("Invalid Vec2!")
       ELSE Ret(Vec2(FAdd(FMul(mx.ex.x, v.x), FMul(mx.ey.x, v.y)),
                     FAdd(FMul(mx.ex.y, v.x), FMul(mx.ey.y, v.y))))
  ELSE IF "ex" \in DOMAIN v /\ "ey" \in DOMAIN v
  THEN IF ~Mat22_isValid(v) THEN Throw("Invalid Mat22!")
       ELSE LET c1 == Vec2(Vec2_dot(mx.ex, v.ex), Vec2_dot(mx.ey, v.ex))
                c2 == Vec2(Vec2_dot(mx.ex, v.ey), Vec2_dot(mx.ey, v.ey))
            IN  Ret(Mat22(c1, c2, Undefined, Undefined))
  ELSE Throw("assert")

Mat22_mulT(mx, v) ==
  IF "x" \in DOMAIN v /\ "y" \in DOMAIN v
  THEN IF ~Vec2_isValid(v) THEN Throw("Invalid Vec2!")
       ELSE Ret(Vec2(Vec2_dot(v, mx.ex), Vec2_dot(v, mx.ey)))
  ELSE IF "ex" \in DOMAIN v /\ "ey" \in DOMAIN v
  THEN IF ~Mat22_isValid(v) THEN Throw("Invalid Mat22!")
       ELSE LET c1 == Vec2(Vec2_dot(mx.ex, v.ex), Vec2_dot(mx.ey, v.ex))
                c2 == Vec2(Vec2_dot(mx.ex, v.ey), Vec2_dot(mx.ey, v.ey))
            IN  Ret(Mat22(c1, c2, Undefined, Undefined))
  ELSE Throw("assert")

Mat22_abs(mx) ==
  IF ~Mat22_isValid(mx) THEN Throw("Invalid Mat22!")
  ELSE Ret(Mat22(Vec2_abs(mx.ex), Vec2_abs(mx.ey), Undefined, Undefined))

\* mx1.ex + mx2.ex: + on two objects concatenates their strings.
ObjPlus(a, b) == Str

\* Mat22.add(mx1, mx2): every outcome of
\* new Mat22(Vec2.add(mx1.ex + mx2.ex), Vec2.add(mx1.ey + mx2.ey)).
Mat22_add(mx1, mx2) ==
  IF ~Mat22_isValid(mx1) \/ ~Mat22_isValid(mx2) THEN {Throw("Invalid Mat22!")}
  ELSE LET c1 == Vec2_add(ObjPlus(mx1.ex, mx2.ex), Undefined)
           c2 == Vec2_add(ObjPlus(mx1.ey, mx2.ey), Undefined)
       IN  {IF r1.err # "" THEN r1
            ELSE IF r2.err # "" THEN r2
            ELSE Ret(Mat22(r1.val, r2.val, Undefined, Undefined)) :
              r1 \in c1, r2 \in c2}

(***************************************************************************)
(* Mat22 on objects.  The heap h is the sequence of the Vec2 objects made  *)
(* so far: cell r holds the vector's value v, who made it (by: "user",     *)
(* "solve" or "Mat22") and for which matrix (of).  A Mat22 object is the   *)
(* pair of the cells its ex and ey refer to.  An argument is a Number,     *)
(* Undefined, a Vec2 object [ref |-> r], a Mat22 object [mref |-> k], or   *)
(* an object written in place [lit |-> its value].                         *)
(***************************************************************************)
Cell(v, by, of) == [v |-> v, by |-> by, of |-> of]

MatVal(h, m) == [ex |-> h[m.ex].v, ey |-> h[m.ey].v]

\* typeof a === 'object', for an argument.
IsObjectArg(a) == "ref" \in DOMAIN a \/ "mref" \in DOMAIN a \/ "lit" \in DOMAIN a

\* The value an argument has in the heap h with the matrices ms.
Val(h, ms, a) ==
  IF "ref" \in DOMAIN a THEN h[a.ref].v
  ELSE IF "mref" \in DOMAIN a THEN MatVal(h, ms[a.mref])
  ELSE IF "lit" \in DOMAIN a THEN a.lit
  ELSE a

\* v.set(x, y) and v.set(w): the components v then has.
Vec2_set(x, y) == IF IsNumber(x) THEN [x |-> x, y |-> y] ELSE [x |-> x.x, y |-> x.y]

\* new Mat22 whose columns are the argument vectors themselves, not clones.
Mat22_new_Aliased(h, ms, a, b, c, d) ==
  LET m == Mat22(Val(h, ms, a), Val(h, ms, b), c, d)
      k == Len(ms) + 1
  IN  IF "ref" \in DOMAIN a /\ "ref" \in DOMAIN b
      THEN [vecs |-> h, ex |-> a.ref, ey |-> b.ref]
      ELSE [vecs |-> h \o <<Cell(m.ex, "Mat22", k), Cell(m.ey, "Mat22", k)>>,
            ex |-> Len(h) + 1, ey |-> Len(h) + 2]

\* new Mat22(a, b, c, d): the heap it leaves and the cells of its columns,
\* which are new vectors in each of the constructor's three cases.
Mat22_new(h, ms, a, b, c, d) ==
  LET m == Mat22(Val(h, ms, a), Val(h, ms, b), c, d)
      k == Len(ms) + 1
  IN  [vecs |-> h \o <<Cell(m.ex, "Mat22", k), Cell(m.ey, "Mat22", k)>>,
       ex |-> Len(h) + 1, ey |-> Len(h) + 2]

\* this.set(a, b, c, d) for the matrix this = ms[k]: the error thrown, if
\* any, and the heap the call leaves.
Mat22_set(h, ms, k, a, b, c, d) ==
  LET this == ms[k]
  IN  IF IsNumber(a) /\ IsNumber(b) /\ IsNumber(c) /\ IsNumber(d)
      THEN [err |-> "",
            vecs |-> [h EXCEPT ![this.ex].v = Vec2_set(a, c),
                               ![this.ey].v = Vec2_set(b, d)]]
      ELSE IF IsObjectArg(a) /\ IsObjectArg(b)
      THEN LET g == [h EXCEPT ![this.ex].v = Vec2_set(Val(h, ms, a), Undefined)]
           IN  [err |-> "",
                vecs |-> [g EXCEPT ![this.ey].v = Vec2_set(Val(g, ms, b), Undefined)]]
      ELSE IF IsObjectArg(a)
      THEN IF ~Mat22_isValid(Val(h, ms, a))
           THEN [err |-> "Invalid Mat22!", vecs |-> h]
           ELSE LET g == [h EXCEPT ![this.ex].v =
                            Vec2_set(Val(h, ms, a).ex, Undefined)]
                IN  [err |-> "",
                     vecs |-> [g EXCEPT ![this.ey].v =
                                 Vec2_set(Val(g, ms, a).ey, Undefined)]]
      ELSE [err |-> "assert", vecs |-> h]

Mat22_setIdentity(h, ms, k) ==
  [h EXCEPT ![ms[k].ex].v = IdentityValue.ex, ![ms[k].ey].v = IdentityValue.ey]

Mat22_setZero(h, ms, k) ==
  [h EXCEPT ![ms[k].ex].v = ZeroValue.ex, ![ms[k].ey].v = ZeroValue.ey]

\* getInverse that inverts this in place and returns it.
Mat22_getInverse_InPlace(h, ms, k) ==
  LET imx == Mat22_getInverse(MatVal(h, ms[k]))
  IN  [vecs |-> [h EXCEPT ![ms[k].ex].v = imx.ex, ![ms[k].ey].v = imx.ey],
       ex |-> ms[k].ex, ey |-> ms[k].ey]

\* this.getInverse() for this = ms[k]: imx is a new Mat22, whose columns
\* are then written.
Mat22_getInverse_new(h, ms, k) ==
  LET n == Mat22_new(h, ms, Undefined, Undefined, Undefined, Undefined)
      imx == Mat22_getInverse(MatVal(h, ms[k]))
  IN  [vecs |-> [n.vecs EXCEPT ![n.ex].v = imx.ex, ![n.ey].v = imx.ey],
       ex |-> n.ex, ey |-> n.ey]

\* this.solve(v) for this = ms[k]: w is a new Vec2, unless v is not valid.
Mat22_solve_new(h, ms, k, v) ==
  LET w == Mat22_solve(MatVal(h, ms[k]), Val(h, ms, v))
  IN  IF w.err # "" THEN [err |-> w.err, vecs |-> h, ret |-> 0]
      ELSE [err |-> "", vecs |-> Append(h, Cell(w.val, "solve", k)),
            ret |-> Len(h) + 1]

(***************************************************************************)
(* The calls on values: a matrix mx is built from four Numbers; a step     *)
(* makes one call on it, and the next drops what the call gave.  op, arg   *)
(* and res are the call whose result is held ("none" when none is), its    *)
(* second operand and what it gave.                                        *)
(***************************************************************************)
VARIABLES op, mx, arg, res

(***************************************************************************)
(* The calls on objects: vecs is the heap of Vec2 objects, mats the Mat22  *)
(* objects made so far, each with the cells of its columns and the matrix  *)
(* whose getInverse returned it (0 when it was constructed), and last the  *)
(* call made last: its name, the matrix it was made on, its arguments, the *)
(* error it threw and the object it returned.                              *)
(***************************************************************************)
VARIABLES vecs, mats, last

vars == <<op, mx, arg, res, vecs, mats, last>>

avars == <<op, mx, arg, res>>

hvars == <<vecs, mats, last>>

Call(name, this, a, err, ret) ==
  [op |-> name, this |-> this, a |-> a, err |-> err, ret |-> ret]

\* The matrix entries and the vector coordinates the calls are made with.
MaxEntry == 3

MaxCoord == 1

Entries == {FromInt(i) : i \in -1..MaxEntry}

Coords == {FromInt(i) : i \in -1..MaxCoord}

Vectors == {Vec2(x, y) : x \in Coords, y \in Coords}

\* Second operands of the matrix-by-matrix calls.
Operands ==
  {Mat22(v, w, Undefined, Undefined) :
     v \in {u \in Vectors : u.x.s = 0 /\ u.y.s = 0},
     w \in {u \in Vectors : u.x.s = 0 /\ u.y.s = 0}}

\* The matrices of the spec's scenarios that the entries above may leave out.
Scenarios ==
  {Mat22(FromInt(1), FromInt(2), FromInt(2), FromInt(4)),
   Mat22(FromInt(2), FromInt(0), FromInt(0), FromInt(2))}

\* No call's result is held.
Idle == op = "none"

InitAlg ==
  /\ \/ \E a \in Entries, b \in Entries, c \in Entries, d \in Entries :
          mx = Mat22(a, b, c, d)
     \/ mx \in Scenarios
  /\ op = "none"
  /\ arg = Undefined
  /\ res = Ret(Undefined)
  /\ vecs = <<>>
  /\ mats = <<>>
  /\ last = Call("none", 0, <<>>, "", 0)

SetIdentity ==
  /\ Idle
  /\ mx' = IdentityValue
  /\ op' = "none"
  /\ arg' = Undefined
  /\ res' = Ret(Undefined)
  /\ UNCHANGED hvars

SetZero ==
  /\ Idle
  /\ mx' = ZeroValue
  /\ op' = "none"
  /\ arg' = Undefined
  /\ res' = Ret(Undefined)
  /\ UNCHANGED hvars

GetInverse ==
  /\ Idle
  /\ op' = "getInverse"
  /\ arg' = Undefined
  /\ res' = Ret(Mat22_getInverse(mx))
  /\ UNCHANGED <<mx, vecs, mats, last>>

Solve ==
  /\ Idle
  /\ \E v \in Vectors :
       /\ op' = "solve"
       /\ arg' = v
       /\ res' = Mat22_solve(mx, v)
  /\ UNCHANGED <<mx, vecs, mats, last>>

Mul ==
  /\ Idle
  /\ \E v \in Vectors \cup Operands :
       /\ op' = "mul"
       /\ arg' = v
       /\ res' = Mat22_mul(mx, v)
  /\ UNCHANGED <<mx, vecs, mats, last>>

MulT ==
  /\ Idle
  /\ \E v \in Vectors \cup Operands :
       /\ op' = "mulT"
       /\ arg' = v
       /\ res' = Mat22_mulT(mx, v)
  /\ UNCHANGED <<mx, vecs, mats, last>>

Abs ==
  /\ Idle
  /\ op' = "abs"
  /\ arg' = Undefined
  /\ res' = Mat22_abs(mx)
  /\ UNCHANGED <<mx, vecs, mats, last>>

Add ==
  /\ Idle
  /\ \E mx2 \in Operands :
       \E r \in Mat22_add(mx, mx2) :
         /\ op' = "add"
         /\ arg' = mx2
         /\ res' = r
  /\ UNCHANGED <<mx, vecs, mats, last>>

Drop ==
  /\ ~Idle
  /\ op' = "none"
  /\ arg' = Undefined
  /\ res' = Ret(Undefined)
  /\ UNCHANGED <<mx, vecs, mats, last>>

NextAlg ==
  \/ SetIdentity
  \/ SetZero
  \/ GetInverse
  \/ Solve
  \/ Mul
  \/ MulT
  \/ Abs
  \/ Add
  \/ Drop

SpecAlg == InitAlg /\ [][NextAlg]_vars

(***************************************************************************)
(* The calls on objects.  The user's code holds two vectors of its own,    *)
(* builds matrices, sets them from Numbers, from its vectors, from a       *)
(* matrix or from an object that is no valid matrix, takes inverses and    *)
(* solutions, and writes its own vectors.                                  *)
(***************************************************************************)
\* The Vec2 objects the heap may hold: the user's two, two for each matrix
\* and one for each vector solve returned.
MaxVectors == 6

\* The values the user's code gives its vectors.
Points == {Vec2(FromInt(4), FromInt(6)), Vec2(FromInt(1), FromInt(0))}

\* The scalars (a, b, c, d) it builds and sets matrices from.
Quads == {<<FromInt(2), FromInt(0), FromInt(0), FromInt(2)>>}

\* The pairs of its vectors it builds and sets matrices from: two vectors,
\* and one vector twice.
Pairs ==
  {<<[ref |-> 1], [ref |-> 2], Undefined, Undefined>>,
   <<[ref |-> 2], [ref |-> 2], Undefined, Undefined>>}

\* Single arguments of set that are objects and no valid matrix: one without
\* ey, one whose ey holds NaN, and a Vec2.
BadObjects ==
  {[lit |-> [ex |-> Vec2(One, Zero)]],
   [lit |-> [ex |-> Vec2(One, Zero), ey |-> [x |-> NaN, y |-> One]]],
   [ref |-> 1]}

\* The vectors the user's code holds.
UserVecs == {r \in 1..Len(vecs) : vecs[r].by = "user"}

MatIds == 1..Len(mats)

MatrixAt(k) == MatVal(vecs, mats[k])

Init ==
  /\ \E p \in Points, q \in Points :
       vecs = <<Cell(p, "user", 0), Cell(q, "user", 0)>>
  /\ mats = <<>>
  /\ last = Call("none", 0, <<>>, "", 0)
  /\ op = "none"
  /\ mx = ZeroValue
  /\ arg = Undefined
  /\ res = Ret(Undefined)

\* new Mat22(), new Mat22(a, b, c, d), new Mat22(v, w).
New ==
  /\ Len(vecs) + 2 <= MaxVectors
  /\ \E args \in {<<Undefined, Undefined, Undefined, Undefined>>}
                   \cup Quads \cup Pairs :
       LET n == Mat22_new(vecs, mats, args[1], args[2], args[3], args[4])
       IN  /\ vecs' = n.vecs
           /\ mats' = Append(mats, [ex |-> n.ex, ey |-> n.ey, inverseOf |-> 0])
           /\ last' = Call("new", Len(mats) + 1, args, "", Len(mats) + 1)
  /\ UNCHANGED avars

\* m.set(a, b, c, d), m.set(v, w), m.set(m2), and m.set(o) for an o that is
\* no valid matrix.
Set ==
  /\ \E k \in MatIds :
       \E args \in Quads \cup Pairs
                     \cup {<<[mref |-> j], Undefined, Undefined, Undefined>> :
                             j \in MatIds}
                     \cup {<<o, Undefined, Undefined, Undefined>> : o \in BadObjects} :
         LET r == Mat22_set(vecs, mats, k, args[1], args[2], args[3], args[4])
         IN  /\ vecs' = r.vecs
             /\ last' = Call("set", k, args, r.err, 0)
  /\ UNCHANGED <<mats, avars>>

SetIdentityOf ==
  /\ \E k \in MatIds :
       /\ vecs' = Mat22_setIdentity(vecs, mats, k)
       /\ last' = Call("setIdentity", k, <<>>, "", 0)
  /\ UNCHANGED <<mats, avars>>

SetZeroOf ==
  /\ \E k \in MatIds :
       /\ vecs' = Mat22_setZero(vecs, mats, k)
       /\ last' = Call("setZero", k, <<>>, "", 0)
  /\ UNCHANGED <<mats, avars>>

GetInverseOf ==
  /\ Len(vecs) + 2 <= MaxVectors
  /\ \E k \in MatIds :
       LET n == Mat22_getInverse_new(vecs, mats, k)
       IN  /\ vecs' = n.vecs
           /\ mats' = Append(mats, [ex |-> n.ex, ey |-> n.ey, inverseOf |-> k])
           /\ last' = Call("getInverse", k, <<>>, "", Len(mats) + 1)
  /\ UNCHANGED avars

SolveOf ==
  /\ Len(vecs) + 1 <= MaxVectors
  /\ \E k \in MatIds, r \in UserVecs :
       LET w == Mat22_solve_new(vecs, mats, k, [ref |-> r])
       IN  /\ vecs' = w.vecs
           /\ last' = Call("solve", k, <<[ref |-> r]>>, w.err, w.ret)
  /\ UNCHANGED <<mats, avars>>

\* The user's code writes one of its vectors.
Write ==
  /\ \E r \in UserVecs, p \in Points :
       /\ vecs[r].v # p
       /\ vecs' = [vecs EXCEPT ![r].v = p]
       /\ last' = Call("write", 0, <<[ref |-> r]>>, "", 0)
  /\ UNCHANGED <<mats, avars>>

Next ==
  \/ New
  \/ Set
  \/ SetIdentityOf
  \/ SetZeroOf
  \/ GetInverseOf
  \/ SolveOf
  \/ Write

Spec == Init /\ [][Next]_vars

(***************************************************************************)
(* Properties of the calls on values.                                      *)
(***************************************************************************)
IsVec(v) == "x" \in DOMAIN v

IsMat(v) == "ex" \in DOMAIN v

EntriesOf(M) == {M.ex.x, M.ex.y, M.ey.x, M.ey.y}

\* The largest magnitude among a set of finite Numbers.
MaxAbs(S) == CHOOSE x \in {FAbs(y) : y \in S} : \A z \in S : XLe(FAbs(z), x)

\* |p - q| * den <= num, exactly.
Within(p, q, num, den) ==
  /\ ~p.nan /\ ~q.nan
  /\ XLe(XMul(FAbs(XSub(p, q)), den), num)

MatWithin(P, Q, num, den) ==
  /\ Within(P.ex.x, Q.ex.x, num, den)
  /\ Within(P.ex.y, Q.ex.y, num, den)
  /\ Within(P.ey.x, Q.ey.x, num, den)
  /\ Within(P.ey.y, Q.ey.y, num, den)

\* The columns of a matrix are unit vectors at right angles, exactly.
Orthonormal(M) ==
  /\ XAdd(XMul(M.ex.x, M.ex.x), XMul(M.ex.y, M.ex.y)) = One
  /\ XAdd(XMul(M.ey.x, M.ey.x), XMul(M.ey.y, M.ey.y)) = One
  /\ XAdd(XMul(M.ex.x, M.ey.x), XMul(M.ex.y, M.ey.y)) = Zero

\* The matrix product A * B, entry by entry in the Numbers' arithmetic.
Product(A, B) ==
  [ex |-> [x |-> FAdd(FMul(A.ex.x, B.ex.x), FMul(A.ey.x, B.ex.y)),
           y |-> FAdd(FMul(A.ex.y, B.ex.x), FMul(A.ey.y, B.ex.y))],
   ey |-> [x |-> FAdd(FMul(A.ex.x, B.ey.x), FMul(A.ey.x, B.ey.y)),
           y |-> FAdd(FMul(A.ex.y, B.ey.x), FMul(A.ey.y, B.ey.y))]]

Sum(A, B) ==
  [ex |-> [x |-> FAdd(A.ex.x, B.ex.x), y |-> FAdd(A.ex.y, B.ex.y)],
   ey |-> [x |-> FAdd(A.ey.x, B.ey.x), y |-> FAdd(A.ey.y, B.ey.y)]]

\* C1 as stated: for a matrix with a non-zero determinant, the products of
\* the matrix and its inverse, in both orders, are the identity matrix.
C1_ExactIdentity ==
  (op = "getInverse" /\ Det(mx) # Zero) =>
    /\ Mat22_mul(mx, res.val) = Ret(IdentityValue)
    /\ Mat22_mul(res.val, mx) = Ret(IdentityValue)

\* C1 as amended: for a matrix of integer entries with a non-zero
\* determinant, every entry of the products of the matrix and its inverse,
\* in both orders, is within 2^-49 * (largest |entry|)^2 / |det| of the
\* identity matrix's entry.
C1_NearIdentity ==
  (op = "getInverse" /\ Det(mx) # Zero) =>
    LET big == MaxAbs(EntriesOf(mx))
        num == XMul(Pow2(-49), XMul(big, big))
        den == FAbs(Det(mx))
        p == Mat22_mul(mx, res.val)
        q == Mat22_mul(res.val, mx)
    IN  /\ p.err = "" /\ MatWithin(p.val, IdentityValue, num, den)
        /\ q.err = "" /\ MatWithin(q.val, IdentityValue, num, den)

\* An inverse whose product with its matrix is not the identity matrix.
C1_Witness ==
  /\ op = "getInverse" /\ Det(mx) # Zero
  /\ Mat22_mul(mx, res.val).val # IdentityValue

\* C2 as stated: for a matrix with a non-zero determinant, solve(v) is the
\* vector that the inverse applied to v is.
C2_SameVector ==
  (op = "solve" /\ Det(mx) # Zero) =>
    res = Mat22_mul(Mat22_getInverse(mx), arg)

\* C2 as amended: for a matrix and a vector of integer entries, the matrix
\* with a non-zero determinant, each coordinate of solve(v) is within
\* 2^-49 * (largest |entry|) * (largest |coordinate|) / |det| of that
\* coordinate of the inverse applied to v.
C2_NearVector ==
  (op = "solve" /\ Det(mx) # Zero) =>
    LET num == XMul(Pow2(-49),
                    XMul(MaxAbs(EntriesOf(mx)), MaxAbs({arg.x, arg.y})))
        den == FAbs(Det(mx))
        w == Mat22_mul(Mat22_getInverse(mx), arg)
    IN  /\ res.err = "" /\ w.err = ""
        /\ Within(res.val.x, w.val.x, num, den)
        /\ Within(res.val.y, w.val.y, num, den)

\* A solution that is not the vector the inverse gives.
C2_Witness ==
  /\ op = "solve" /\ Det(mx) # Zero
  /\ res.val # Mat22_mul(Mat22_getInverse(mx), arg).val

Rot == Mat22(FromInt(0), FromInt(1), FromInt(-1), FromInt(0))

\* C4 as stated: with M built from (0, 1, -1, 0), mul(M, (1,0)) is (0,1) and
\* mulT(M, (0,1)) is (1,0).
C4_AsStated ==
  /\ (op = "mul" /\ mx = Rot /\ arg = Vec2(FromInt(1), FromInt(0))) =>
       res = Ret(Vec2(FromInt(0), FromInt(1)))
  /\ (op = "mulT" /\ mx = Rot /\ arg = Vec2(FromInt(0), FromInt(1))) =>
       res = Ret(Vec2(FromInt(1), FromInt(0)))

\* C4 as amended: with M built from (0, 1, -1, 0), whose columns are
\* ex = (0,-1) and ey = (1,0), mul(M, (1,0)) is (0,-1) and mulT(M, (0,1)) is
\* (-1,0).
C4_Scenario ==
  /\ (op = "mul" /\ mx = Rot /\ arg = Vec2(FromInt(1), FromInt(0))) =>
       res = Ret(Vec2(FromInt(0), FromInt(-1)))
  /\ (op = "mulT" /\ mx = Rot /\ arg = Vec2(FromInt(0), FromInt(1))) =>
       res = Ret(Vec2(FromInt(-1), FromInt(0)))

\* mul has been called with the scenario's matrix and vector.
C4_Witness ==
  /\ op = "mul" /\ mx = Rot /\ arg = Vec2(FromInt(1), FromInt(0))
  /\ res.err = ""

\* C5: mul(A, B) of two valid matrices is the matrix product A * B, its
\* columns A applied to B.ex and to B.ey; mul(Identity, B) is B.
C5_Product ==
  (op = "mul" /\ IsMat(arg)) =>
    /\ res = Ret(Product(mx, arg))
    /\ res.val.ex = Mat22_mul(mx, arg.ex).val
    /\ res.val.ey = Mat22_mul(mx, arg.ey).val
    /\ mx = IdentityValue => res.val = arg

\* A product of two matrices, neither the identity nor zero, has been taken.
C5_Witness ==
  /\ op = "mul" /\ IsMat(arg) /\ res.err = ""
  /\ mx \notin {IdentityValue, ZeroValue}
  /\ arg \notin {IdentityValue, ZeroValue}
  /\ res.val # ZeroValue

\* C6: add(mx1, mx2) of two valid matrices is their element-wise sum.
C6_Sum == op = "add" => res = Ret(Sum(mx, arg))

\* C8: for an orthonormal matrix M and a valid vector v, mul(M, mulT(M, v))
\* is v, and mulT(M, v) is (dot(v, M.ex), dot(v, M.ey)).
C8_RoundTrip ==
  (op = "mulT" /\ IsVec(arg) /\ Orthonormal(mx)) =>
    /\ res = Ret(Vec2(Vec2_dot(arg, mx.ex), Vec2_dot(arg, mx.ey)))
    /\ Mat22_mul(mx, res.val) = Ret(arg)

\* mulT has been called with a quarter-turn rotation and a vector off the axes.
C8_Witness ==
  /\ op = "mulT" /\ IsVec(arg) /\ Orthonormal(mx)
  /\ mx.ex.x = Zero
  /\ arg.x # Zero /\ arg.y # Zero /\ arg.x # arg.y


(***************************************************************************)
(* Properties of the calls on objects.                                     *)
(***************************************************************************)
\* The value new Mat22 or set gives the matrix, read from the arguments a in
\* the heap h as it was before the call.
SourceValue(h, ms, a) ==
  IF "mref" \in DOMAIN a[1] THEN Val(h, ms, a[1])
  ELSE Mat22(Val(h, ms, a[1]), Val(h, ms, a[2]), a[3], a[4])

\* C7: new Mat22(v, w) and set(a, b, c, d), set(v, w), set(m) give the matrix
\* the values of their sources and share no object with them: a later write
\* of a vector of the user's changes no matrix, and building or setting a
\* matrix changes no vector of the user's and no other matrix.
C7_CopiesNeverAlias ==
  [][/\ last'.op = "write" =>
          \A k \in MatIds : MatVal(vecs', mats'[k]) = MatVal(vecs, mats[k])
     /\ last'.op \in {"new", "set", "setIdentity", "setZero"} =>
          /\ \A r \in UserVecs : vecs'[r] = vecs[r]
          /\ \A j \in MatIds \ {last'.this} :
               MatVal(vecs', mats'[j]) = MatVal(vecs, mats[j])
     /\ last'.op \in {"new", "set"} /\ last'.err = "" =>
          MatVal(vecs', mats'[last'.this]) = SourceValue(vecs, mats, last'.a)
    ]_vars

\* C7's case: a vector of the user's was written, and a matrix still holds in
\* both columns the value the second vector had when the matrix was built or
\* set from it.
C7_Witness ==
  /\ last.op = "write"
  /\ \E k \in MatIds, p \in Points :
       /\ MatrixAt(k) = [ex |-> p, ey |-> p]
       /\ vecs[2].v # p

\* C9: set with a single argument that is an object and no valid matrix
\* throws 'Invalid Mat22!' and leaves the columns of the receiver as they
\* were.
C9_InvalidRejected ==
  [][(last'.op = "set" /\ last'.a[2] = Undefined /\ last'.a[1] \in BadObjects) =>
       /\ last'.err = "Invalid Mat22!"
       /\ MatVal(vecs', mats'[last'.this]) = MatVal(vecs, mats[last'.this])
    ]_vars

\* C9's case: set with such an argument threw on a matrix that is not the
\* zero matrix.
C9_Witness ==
  /\ last.op = "set"
  /\ last.a[2] = Undefined
  /\ last.a[1] \in BadObjects
  /\ last.err = "Invalid Mat22!"
  /\ MatrixAt(last.this) # ZeroValue

\* C10: getInverse and solve change no object there was before the call and
\* return an object made in the call; the columns of a matrix change only in
\* a set, setIdentity or setZero on that matrix; and no call changes a
\* vector solve returned.
C10_NoMutation ==
  [][/\ last'.op \in {"getInverse", "solve"} =>
          /\ \A r \in 1..Len(vecs) : vecs'[r] = vecs[r]
          /\ \A k \in MatIds : mats'[k] = mats[k]
     /\ last'.op = "getInverse" =>
          /\ mats'[last'.ret].ex > Len(vecs)
          /\ mats'[last'.ret].ey > Len(vecs)
          /\ mats'[last'.ret].ex # mats'[last'.ret].ey
     /\ last'.op = "solve" /\ last'.err = "" => last'.ret > Len(vecs)
     /\ \A k \in MatIds :
          MatVal(vecs', mats'[k]) # MatVal(vecs, mats[k]) =>
            /\ last'.op \in {"set", "setIdentity", "setZero"}
            /\ last'.this = k
     /\ \A r \in 1..Len(vecs) : vecs[r].by = "solve" => vecs'[r] = vecs[r]
    ]_vars

\* C10's case: a matrix that getInverse returned still holds the inverse of
\* the scalars its receiver was built from after setIdentity on the receiver.
C10_Witness ==
  /\ last.op = "setIdentity"
  /\ MatrixAt(last.this) = IdentityValue
  /\ \E j \in MatIds, q \in Quads :
       /\ mats[j].inverseOf = last.this
       /\ MatrixAt(j) = Mat22_getInverse(Mat22(q[1], q[2], q[3], q[4]))
       /\ MatrixAt(j) # IdentityValue

====
